---- MODULE Spec2Model ----
(* conventional-commitlint: the commit message validator (src/main.rs),    *)
(* the commit object decoder and the git access layer (src/git.rs), and    *)
(* the range-check loop of `check` (src/main.rs, main).                    *)
(*                                                                         *)
(* Byte strings are sequences of integers 0..255; a Rust &str is the       *)
(* sequence of its Unicode scalar values, obtained by from_utf8.           *)
EXTENDS Integers, Sequences, FiniteSets, TLC

VARIABLES
    title,      \* validator: the bytes given to check_commit_message
    result,     \* validator: what check_commit_message returned
    vpc,        \* validator: "start" or "done"
    source,     \* decoder: the raw bytes of the object
    output,     \* decoder: what `git cat-file commit` did
    object,     \* decoder: what CommitObject::parse / get_commit returned
    dpc,        \* decoder: "start", "parsed" or "fetched"
    log_stdout, \* get_commits: the bytes `git log` printed
    log_output, \* get_commits: what `git log` did
    commits,    \* get_commits: what get_commits returned
    lpc,        \* get_commits: "start" or "done"
    range,      \* check: the commits of the range, as `git log` lists them
    pc,         \* check: the position of main
    head,       \* check: the resolved head
    base,       \* check: the resolved base
    commit_list,\* check: what get_commits returned
    idx,        \* check: the number of loop iterations completed
    have_err,   \* check: have_err
    exit_code,  \* check: the exit status of the process
    validated   \* check: the commits validated so far, with their errors

vars == <<title, result, vpc, source, output, object, dpc,
          log_stdout, log_output, commits, lpc,
          range, pc, head, base, commit_list, idx, have_err, exit_code, validated>>

main_vars == <<range, pc, head, base, commit_list, idx, have_err, exit_code, validated>>

log_vars == <<log_stdout, log_output, commits, lpc>>

validator_vars == <<title, result, vpc>>

decoder_vars == <<source, output, object, dpc>>

(***************************************************************************)
(* Slice helpers of the Rust standard library                              *)
(***************************************************************************)
starts_with(s, p) == Len(s) >= Len(p) /\ SubSeq(s, 1, Len(p)) = p

ends_with(s, p) == Len(s) >= Len(p) /\ SubSeq(s, Len(s) - Len(p) + 1, Len(s)) = p

\* &s[n..]
slice_from(s, n) == SubSeq(s, n + 1, Len(s))

\* &s[..n]
slice_to(s, n) == SubSeq(s, 1, n)

\* str::find / Iterator::position for "an element of S": the 0-based index of
\* the first such element, or -1 for None
find_in(s, S) ==
    IF \E i \in 1..Len(s) : s[i] \in S
    THEN (CHOOSE i \in 1..Len(s) : s[i] \in S /\ \A j \in 1..(i - 1) : s[j] \notin S) - 1
    ELSE -1

\* the same for "not an element of S"
find_not_in(s, S) ==
    IF \E i \in 1..Len(s) : s[i] \notin S
    THEN (CHOOSE i \in 1..Len(s) : s[i] \notin S /\ \A j \in 1..(i - 1) : s[j] \in S) - 1
    ELSE -1

RECURSIVE concat(_)
concat(ss) == IF ss = <<>> THEN <<>> ELSE Head(ss) \o concat(Tail(ss))

(***************************************************************************)
(* std::str::from_utf8                                                     *)
(***************************************************************************)
is_cont(b) == b >= 128 /\ b <= 191

\* width of the well-formed UTF-8 sequence at the start of s (s non-empty),
\* 0 when there is none
utf8_char_width(s) ==
    LET b == s[1]
        n == Len(s)
    IN  IF b < 128 THEN 1
        ELSE IF b >= 194 /\ b <= 223
             THEN IF n >= 2 /\ is_cont(s[2]) THEN 2 ELSE 0
        ELSE IF b >= 224 /\ b <= 239
             THEN IF /\ n >= 3
                     /\ IF b = 224 THEN s[2] >= 160 /\ s[2] <= 191
                        ELSE IF b = 237 THEN s[2] >= 128 /\ s[2] <= 159
                        ELSE is_cont(s[2])
                     /\ is_cont(s[3])
                  THEN 3 ELSE 0
        ELSE IF b >= 240 /\ b <= 244
             THEN IF /\ n >= 4
                     /\ IF b = 240 THEN s[2] >= 144 /\ s[2] <= 191
                        ELSE IF b = 244 THEN s[2] >= 128 /\ s[2] <= 143
                        ELSE is_cont(s[2])
                     /\ is_cont(s[3])
                     /\ is_cont(s[4])
                  THEN 4 ELSE 0
        ELSE 0

\* the scalar value of the well-formed sequence of width w at the start of s
utf8_char(s, w) ==
    IF w = 1 THEN s[1]
    ELSE IF w = 2 THEN (s[1] - 192) * 64 + (s[2] - 128)
    ELSE IF w = 3 THEN (s[1] - 224) * 4096 + (s[2] - 128) * 64 + (s[3] - 128)
    ELSE (s[1] - 240) * 262144 + (s[2] - 128) * 4096 + (s[3] - 128) * 64 + (s[4] - 128)

RECURSIVE utf8_valid(_)
utf8_valid(s) ==
    IF s = <<>> THEN TRUE
    ELSE LET w == utf8_char_width(s)
         IN  IF w = 0 THEN FALSE ELSE utf8_valid(slice_from(s, w))

RECURSIVE utf8_chars(_)
utf8_chars(s) ==
    IF s = <<>> THEN <<>>
    ELSE LET w == utf8_char_width(s)
         IN  <<utf8_char(s, w)>> \o utf8_chars(slice_from(s, w))

\* Result<&str, Utf8Error>
from_utf8(bytes) ==
    IF utf8_valid(bytes) THEN [ok |-> TRUE, str |-> utf8_chars(bytes)]
    ELSE [ok |-> FALSE, str |-> <<>>]

(***************************************************************************)
(* str::lines, str::trim, str::trim_start, str::to_ascii_lowercase         *)
(***************************************************************************)
\* str::split_inclusive('\n')
RECURSIVE split_inclusive(_)
split_inclusive(s) ==
    IF s = <<>> THEN <<>>
    ELSE LET p == find_in(s, {10})
         IN  IF p = -1 THEN <<s>>
             ELSE <<slice_to(s, p + 1)>> \o split_inclusive(slice_from(s, p + 1))

\* the closure of str::lines: strip one "\n", and then one "\r"
strip_line_ending(line) ==
    IF ~ends_with(line, <<10>>) THEN line
    ELSE LET l == slice_to(line, Len(line) - 1)
         IN  IF ends_with(l, <<13>>) THEN slice_to(l, Len(l) - 1) ELSE l

lines(s) ==
    LET parts == split_inclusive(s)
    IN  [i \in 1..Len(parts) |-> strip_line_ending(parts[i])]

\* char::is_whitespace: the Unicode White_Space property
White_Space ==
    (9..13) \cup {32, 133, 160, 5760} \cup (8192..8202) \cup {8232, 8233, 8239, 8287, 12288}

is_whitespace(c) == c \in White_Space

trim_start(s) ==
    LET p == find_not_in(s, White_Space)
    IN  IF p = -1 THEN <<>> ELSE slice_from(s, p)

RECURSIVE trim_end(_)
trim_end(s) ==
    IF s = <<>> THEN <<>>
    ELSE IF is_whitespace(s[Len(s)]) THEN trim_end(slice_to(s, Len(s) - 1))
    ELSE s

trim(s) == trim_end(trim_start(s))

to_ascii_lowercase(s) ==
    [i \in 1..Len(s) |-> IF s[i] >= 65 /\ s[i] <= 90 THEN s[i] + 32 ELSE s[i]]

(***************************************************************************)
(* MessageError                                                            *)
(***************************************************************************)
\* a payload-free variant
MessageError(kind) == [kind |-> kind, ty |-> <<>>]

\* MessageError::HeaderUnknownType(String)
HeaderUnknownType(ty) == [kind |-> "HeaderUnknownType", ty |-> ty]

(***************************************************************************)
(* check_header                                                            *)
(***************************************************************************)
\* 'a'..='z' | 'A'..='Z' | '0'..='9' | '-'
type_chars == (97..122) \cup (65..90) \cup (48..57) \cup {45}

ParseNone == [some |-> FALSE, ty |-> <<>>, has_scope |-> FALSE, scope |-> <<>>,
              is_breaking |-> FALSE, rest |-> <<>>]

\* fn parse(line) -> Option<(ty, scope, is_breaking, rest)>
parse(line) ==
    LET ty_end == find_not_in(line, type_chars)
    IN  IF ty_end = -1 THEN ParseNone
        ELSE
        LET ty == slice_to(line, ty_end)
            rest0 == slice_from(line, ty_end)
            has_scope == starts_with(rest0, <<40>>)
            rest1 == slice_from(rest0, 1)
            close_scope == find_in(rest1, {41})
        IN  IF has_scope /\ close_scope = -1 THEN ParseNone
            ELSE
            LET scope == IF has_scope THEN slice_to(rest1, close_scope) ELSE <<>>
                rest2 == IF has_scope THEN slice_from(rest1, close_scope + 1) ELSE rest0
                is_breaking == starts_with(rest2, <<33>>)
                rest3 == IF is_breaking THEN slice_from(rest2, 1) ELSE rest2
            IN  IF ~starts_with(rest3, <<58>>) THEN ParseNone
                ELSE [some |-> TRUE, ty |-> ty, has_scope |-> has_scope,
                      scope |-> scope, is_breaking |-> is_breaking,
                      rest |-> slice_from(rest3, 1)]

\* the matches! list of known types
known_types ==
    { <<98, 117, 105, 108, 100>>,               \* build
      <<99, 104, 111, 114, 101>>,               \* chore
      <<99, 105>>,                              \* ci
      <<100, 111, 99, 115>>,                    \* docs
      <<102, 101, 97, 116>>,                    \* feat
      <<102, 105, 120>>,                        \* fix
      <<112, 101, 114, 102>>,                   \* perf
      <<114, 101, 102, 97, 99, 116, 111, 114>>, \* refactor
      <<114, 101, 118, 101, 114, 116>>,         \* revert
      <<115, 116, 121, 108, 101>>,              \* style
      <<116, 101, 115, 116>> }                  \* test

\* the type checks of check_header
check_type_payload_lower(ty) ==
    LET ty_lower == to_ascii_lowercase(ty)
    IN  (IF ty_lower # ty THEN <<MessageError("HeaderTypeNotLower")>> ELSE <<>>)
        \o (IF ty_lower \notin known_types THEN <<HeaderUnknownType(ty_lower)>> ELSE <<>>)

check_type(ty) ==
    LET ty_lower == to_ascii_lowercase(ty)
    IN  (IF ty_lower # ty THEN <<MessageError("HeaderTypeNotLower")>> ELSE <<>>)
        \o (IF ty_lower \notin known_types THEN <<HeaderUnknownType(ty)>> ELSE <<>>)

\* the space check after the colon: the errors and the working subject
check_space(subject) ==
    IF subject = <<>> THEN [errors |-> <<>>, subject |-> subject]
    ELSE IF starts_with(subject, <<32>>)
    THEN [errors |-> <<>>, subject |-> slice_from(subject, 1)]
    ELSE [errors |-> <<MessageError("HeaderNoSpaceAfterColon")>>, subject |-> subject]

\* the subject-content checks of check_header
check_subject(subject) ==
    LET trimmed_subject == trim(subject)
        lower == to_ascii_lowercase(trimmed_subject)
        like_a_sentence ==
            \/ ends_with(lower, <<46>>)
            \/ starts_with(lower, <<105, 32>>)           \* "i "
            \/ starts_with(lower, <<119, 101, 32>>)      \* "we "
            \/ starts_with(lower, <<121, 111, 117, 32>>) \* "you "
    IN  (IF trimmed_subject # subject
         THEN <<MessageError("HeaderSubjectNotTrimmed")>> ELSE <<>>)
        \o (IF like_a_sentence
            THEN <<MessageError("HeaderSubjectMustNotASentence")>> ELSE <<>>)
        \o (IF lower = <<>> THEN <<MessageError("HeaderSubjectEmpty")>> ELSE <<>>)

\* fn check_header(line, errors) -> Option<bool>: the errors pushed and the
\* returned breaking flag
check_header(line) ==
    LET parsed == parse(line)
        space == check_space(parsed.rest)
        header_errors ==
            IF parsed.some THEN check_type(parsed.ty) \o space.errors
            ELSE <<MessageError("HeaderNotFormatted")>>
        subject == IF parsed.some THEN space.subject ELSE line
    IN  [errors |-> header_errors \o check_subject(subject),
         is_breaking |-> [some |-> parsed.some, val |-> parsed.is_breaking]]

(***************************************************************************)
(* check_commit_message                                                    *)
(***************************************************************************)
prefixes_without_pull_request ==
    { <<77, 101, 114, 103, 101, 32, 98, 114, 97, 110, 99, 104, 32>>,
      <<77, 101, 114, 103, 101, 32, 98, 114, 97, 110, 99, 104, 101, 115, 32>>,
      <<77, 101, 114, 103, 101, 32, 114, 101, 109, 111, 116, 101, 45, 116, 114, 97,
        99, 107, 105, 110, 103, 32, 98, 114, 97, 110, 99, 104, 32>>,
      <<77, 101, 114, 103, 101, 32, 114, 101, 109, 111, 116, 101, 45, 116, 114, 97,
        99, 107, 105, 110, 103, 32, 98, 114, 97, 110, 99, 104, 101, 115, 32>>,
      <<77, 101, 114, 103, 101, 32, 116, 97, 103, 32>>,
      <<77, 101, 114, 103, 101, 32, 116, 97, 103, 115, 32>>,
      <<77, 101, 114, 103, 101, 32, 99, 111, 109, 109, 105, 116, 32>>,
      <<77, 101, 114, 103, 101, 32, 99, 111, 109, 109, 105, 116, 115, 32>>,
      <<77, 101, 114, 103, 101, 32, 72, 69, 65, 68, 32>>,
      <<82, 101, 118, 101, 114, 116, 32, 34>> }

prefixes ==
    { <<77, 101, 114, 103, 101, 32, 98, 114, 97, 110, 99, 104, 32>>,
          \* "Merge branch "
      <<77, 101, 114, 103, 101, 32, 98, 114, 97, 110, 99, 104, 101, 115, 32>>,
          \* "Merge branches "
      <<77, 101, 114, 103, 101, 32, 114, 101, 109, 111, 116, 101, 45, 116, 114, 97,
        99, 107, 105, 110, 103, 32, 98, 114, 97, 110, 99, 104, 32>>,
          \* "Merge remote-tracking branch "
      <<77, 101, 114, 103, 101, 32, 114, 101, 109, 111, 116, 101, 45, 116, 114, 97,
        99, 107, 105, 110, 103, 32, 98, 114, 97, 110, 99, 104, 101, 115, 32>>,
          \* "Merge remote-tracking branches "
      <<77, 101, 114, 103, 101, 32, 116, 97, 103, 32>>,
          \* "Merge tag "
      <<77, 101, 114, 103, 101, 32, 116, 97, 103, 115, 32>>,
          \* "Merge tags "
      <<77, 101, 114, 103, 101, 32, 99, 111, 109, 109, 105, 116, 32>>,
          \* "Merge commit "
      <<77, 101, 114, 103, 101, 32, 99, 111, 109, 109, 105, 116, 115, 32>>,
          \* "Merge commits "
      <<77, 101, 114, 103, 101, 32, 72, 69, 65, 68, 32>>,
          \* "Merge HEAD "
      <<82, 101, 118, 101, 114, 116, 32, 34>>,
          \* "Revert \""
      <<77, 101, 114, 103, 101, 32, 112, 117, 108, 108, 32, 114, 101, 113, 117, 101,
        115, 116, 32, 35>> }
          \* "Merge pull request #"

\* fn is_breaking_footer(line) -> bool
is_breaking_footer(line) ==
    LET trimmed == trim_start(line)
    IN  \/ starts_with(trimmed, <<66, 82, 69, 65, 75, 73, 78, 71, 32, 67, 72, 65, 78, 71, 69>>)
        \/ starts_with(trimmed, <<66, 82, 69, 65, 75, 73, 78, 71, 45, 67, 72, 65, 78, 71, 69>>)

Returned(errors) == [panic |-> FALSE, errors |-> errors]

\* an index out of bounds
Panicked == [panic |-> TRUE, errors |-> <<>>]

\* fn check_commit_message(title: &[u8]) -> Vec<MessageError>
check_commit_message(bytes) ==
    IF \E prefix \in prefixes : starts_with(bytes, prefix) THEN Returned(<<>>)
    ELSE
    LET decoded == from_utf8(bytes)
    IN  IF ~decoded.ok THEN Returned(<<MessageError("NotUtf8")>>)
        ELSE
        LET ls == lines(decoded.str)
        IN  IF Len(ls) = 0 THEN Panicked        \* lines[0]
            ELSE
            LET header == check_header(ls[1])
                is_breaking == header.is_breaking
                errors1 == header.errors
            IN  IF Len(ls) = 1 THEN Returned(errors1)
                ELSE
                LET errors2 ==
                        IF ls[2] # <<>>
                        THEN errors1 \o <<MessageError("NoEmptyLineBeforeBody")>>
                        ELSE errors1
                    message_lines == slice_from(ls, 2)
                    footer_breaking ==
                        \E i \in 1..Len(message_lines) : is_breaking_footer(message_lines[i])
                IN  IF is_breaking.some /\ footer_breaking /\ ~is_breaking.val
                    THEN Returned(errors2 \o <<MessageError("NoBangInBreakingChangeCommit")>>)
                    ELSE Returned(errors2)

(***************************************************************************)
(* CommitObject::parse and GitRepository::get_commit (src/git.rs)          *)
(***************************************************************************)
\* Option<(&[u8], &[u8])>
SplitNone == [some |-> FALSE, before |-> <<>>, after |-> <<>>]

\* a split that takes the whole input as the last piece when the byte is absent
try_split_to_end(src, byte) ==
    LET p == find_in(src, {byte})
    IN  IF p = -1 THEN [some |-> TRUE, before |-> src, after |-> <<>>]
        ELSE [some |-> TRUE, before |-> slice_to(src, p), after |-> slice_from(src, p + 1)]

\* fn try_split(source, find) -> Option<(&[u8], &[u8])>
try_split(src, byte) ==
    LET p == find_in(src, {byte})
    IN  IF p = -1 THEN SplitNone
        ELSE [some |-> TRUE, before |-> slice_to(src, p), after |-> slice_from(src, p + 1)]

\* Option<CommitObject>, or the panic of a failed assert!
ObjectNone == [panic |-> FALSE, some |-> FALSE, header |-> <<>>, message |-> <<>>]

ObjectPanic == [panic |-> TRUE, some |-> FALSE, header |-> <<>>, message |-> <<>>]

ObjectSome(header, message) ==
    [panic |-> FALSE, some |-> TRUE, header |-> header, message |-> message]

\* a continuation that keeps the leading space of the line
push_continuation_keep_space(value, line) == value \o <<10>> \o line

\* value.push(b'\n'); value.extend_from_slice(&line[1..])
push_continuation(value, line) == value \o <<10>> \o slice_from(line, 1)

\* while source.starts_with(b" ") { ... }
RECURSIVE fold_continuations(_, _)
fold_continuations(value, src) ==
    IF ~starts_with(src, <<32>>)
    THEN [panic |-> FALSE, some |-> TRUE, value |-> value, source |-> src]
    ELSE LET sp == try_split(src, 10)
         IN  IF ~sp.some
             THEN [panic |-> FALSE, some |-> FALSE, value |-> value, source |-> src]
             ELSE IF ~starts_with(sp.before, <<32>>)       \* assert!
             THEN [panic |-> TRUE, some |-> FALSE, value |-> value, source |-> src]
             ELSE fold_continuations(push_continuation(value, sp.before), sp.after)

\* the loop of CommitObject::parse
RECURSIVE parse_headers(_, _)
parse_headers(header, src) ==
    LET sp == try_split(src, 10)
    IN  IF ~sp.some THEN ObjectNone
        ELSE IF sp.before = <<>> THEN ObjectSome(header, sp.after)
        ELSE
        LET nv == try_split(sp.before, 32)
        IN  IF ~nv.some THEN ObjectNone
            ELSE
            LET f == fold_continuations(nv.after, sp.after)
            IN  IF f.panic THEN ObjectPanic
                ELSE IF ~f.some THEN ObjectNone
                ELSE parse_headers(Append(header, [name |-> nv.before, value |-> f.value]),
                                   f.source)

\* pub fn parse(source: &[u8]) -> Option<CommitObject>
CommitObject_parse(src) == parse_headers(<<>>, src)

\* the outcome of running git: spawn or wait failed, or it exited with a
\* status and an output
ProcessError == [io_error |-> TRUE, success |-> FALSE, stdout |-> <<>>]

ProcessOutput(success, stdout) ==
    [io_error |-> FALSE, success |-> success, stdout |-> stdout]

\* io::Result<T>
IoErr == [io |-> "Err", value |-> ObjectNone]

IoOk(value) == [io |-> "Ok", value |-> value]

\* pub async fn get_commit(&self, hash) -> io::Result<Option<CommitObject>>
get_commit(out) ==
    IF out.io_error THEN IoErr
    ELSE IF ~out.success THEN IoOk(ObjectNone)
    ELSE IoOk(CommitObject_parse(out.stdout))

(***************************************************************************)
(* ObjectHash, rev_parse and get_commits (src/git.rs)                      *)
(***************************************************************************)
HASH_BITS == 160

HASH_BYTES == HASH_BITS \div 8

HASH_HEX_LEN == HASH_BITS \div 4

\* the value of a hex digit, -1 when the byte is not one (hex::decode_to_slice)
hex_val(c) ==
    IF c >= 48 /\ c <= 57 THEN c - 48
    ELSE IF c >= 97 /\ c <= 102 THEN c - 97 + 10
    ELSE IF c >= 65 /\ c <= 70 THEN c - 65 + 10
    ELSE -1

\* Result<ObjectHash, FromHexError>
HashErr == [ok |-> FALSE, hash |-> <<>>]

\* pub fn from_hex(s) -> Result<ObjectHash, FromHexError>
from_hex(s) ==
    IF Len(s) # HASH_HEX_LEN THEN HashErr
    ELSE IF \E i \in 1..Len(s) : hex_val(s[i]) = -1 THEN HashErr
    ELSE [ok |-> TRUE,
          hash |-> [i \in 1..HASH_BYTES |-> hex_val(s[2 * i - 1]) * 16 + hex_val(s[2 * i])]]

\* a lowercase hex digit (hex::encode_to_slice)
hex_digit(v) == IF v < 10 THEN 48 + v ELSE 97 + (v - 10)

\* impl Display for ObjectHash
Display(hash) ==
    [i \in 1..(2 * Len(hash)) |->
        IF i % 2 = 1 THEN hex_digit(hash[(i + 1) \div 2] \div 16)
        ELSE hex_digit(hash[i \div 2] % 16)]

\* slice::split(|x| *x == byte)
RECURSIVE split(_, _)
split(s, byte) ==
    LET p == find_in(s, {byte})
    IN  IF p = -1 THEN <<s>>
        ELSE <<slice_to(s, p)>> \o split(slice_from(s, p + 1), byte)

\* x.strip_suffix(b"\r").unwrap_or(x)
strip_cr(x) == IF ends_with(x, <<13>>) THEN slice_to(x, Len(x) - 1) ELSE x

\* .filter(|x| !x.is_empty()).filter_map(|x| ObjectHash::from_hex(x).ok())
RECURSIVE filter_map_hashes(_)
filter_map_hashes(ls) ==
    IF ls = <<>> THEN <<>>
    ELSE LET x == strip_cr(Head(ls))
             h == from_hex(x)
         IN  (IF x # <<>> /\ h.ok THEN <<h.hash>> ELSE <<>>) \o filter_map_hashes(Tail(ls))

\* io::Result<Vec<ObjectHash>>
ListErr == [io |-> "Err", value |-> <<>>]

ListOk(value) == [io |-> "Ok", value |-> value]

\* pub async fn get_commits(&self, head, base) -> io::Result<Vec<ObjectHash>>
get_commits(out) ==
    IF out.io_error THEN ListErr
    ELSE IF ~out.success \/ Len(out.stdout) < HASH_HEX_LEN THEN ListOk(<<>>)
    ELSE ListOk(filter_map_hashes(split(out.stdout, 10)))

\* io::Result<Option<ObjectHash>>
RevErr == [io |-> "Err", some |-> FALSE, hash |-> <<>>]

RevNone == [io |-> "Ok", some |-> FALSE, hash |-> <<>>]

\* pub async fn rev_parse(&self, name) -> io::Result<Option<ObjectHash>>
rev_parse(out) ==
    IF out.io_error THEN RevErr
    ELSE IF ~out.success \/ Len(out.stdout) < HASH_HEX_LEN THEN RevNone
    ELSE LET h == from_hex(slice_to(out.stdout, HASH_HEX_LEN))
         IN  [io |-> "Ok", some |-> h.ok, hash |-> h.hash]

(***************************************************************************)
(* The documented rules, stated independently of the code                  *)
(***************************************************************************)
\* the auto-generated prefixes that exempt a message
ExemptPrefixes ==
    { <<77, 101, 114, 103, 101, 32, 98, 114, 97, 110, 99, 104, 32>>,
      <<77, 101, 114, 103, 101, 32, 98, 114, 97, 110, 99, 104, 101, 115, 32>>,
      <<77, 101, 114, 103, 101, 32, 114, 101, 109, 111, 116, 101, 45, 116, 114, 97,
        99, 107, 105, 110, 103, 32, 98, 114, 97, 110, 99, 104, 32>>,
      <<77, 101, 114, 103, 101, 32, 114, 101, 109, 111, 116, 101, 45, 116, 114, 97,
        99, 107, 105, 110, 103, 32, 98, 114, 97, 110, 99, 104, 101, 115, 32>>,
      <<77, 101, 114, 103, 101, 32, 116, 97, 103, 32>>,
      <<77, 101, 114, 103, 101, 32, 116, 97, 103, 115, 32>>,
      <<77, 101, 114, 103, 101, 32, 99, 111, 109, 109, 105, 116, 32>>,
      <<77, 101, 114, 103, 101, 32, 99, 111, 109, 109, 105, 116, 115, 32>>,
      <<77, 101, 114, 103, 101, 32, 72, 69, 65, 68, 32>>,
      <<82, 101, 118, 101, 114, 116, 32, 34>>,
      <<77, 101, 114, 103, 101, 32, 112, 117, 108, 108, 32, 114, 101, 113, 117, 101,
        115, 116, 32, 35>> }

\* build, chore, ci, docs, feat, fix, perf, refactor, revert, style, test
KnownTypeNames ==
    { <<98, 117, 105, 108, 100>>, <<99, 104, 111, 114, 101>>, <<99, 105>>,
      <<100, 111, 99, 115>>, <<102, 101, 97, 116>>, <<102, 105, 120>>,
      <<112, 101, 114, 102>>, <<114, 101, 102, 97, 99, 116, 111, 114>>,
      <<114, 101, 118, 101, 114, 116>>, <<115, 116, 121, 108, 101>>,
      <<116, 101, 115, 116>> }

\* [A-Za-z0-9-]
IsTypeChar(x) ==
    \/ x >= 97 /\ x <= 122
    \/ x >= 65 /\ x <= 90
    \/ x >= 48 /\ x <= 57
    \/ x = 45

IsUpper(x) == x >= 65 /\ x <= 90

\* h is type ["(" scope ")"] ["!"], the type being its first n >= min
\* characters and "!" present iff bang
HeadIs(h, n, bang, min) ==
    /\ n >= min
    /\ n + (IF bang THEN 1 ELSE 0) <= Len(h)
    /\ \A i \in 1..n : IsTypeChar(h[i])
    /\ bang => h[Len(h)] = 33
    /\ LET r == SubSeq(h, n + 1, Len(h) - (IF bang THEN 1 ELSE 0))
       IN  \/ r = <<>>
           \/ /\ Len(r) >= 2
              /\ r[1] = 40
              /\ r[Len(r)] = 41
              /\ \A k \in 2..(Len(r) - 1) : r[k] # 41

\* the positions of a ":" that ends a head of the grammar
\*   type ["(" scope ")"] ["!"] ":" [subject]
\* (there is at most one)
GrammarColons(line, min) ==
    { c \in 1..Len(line) :
        /\ line[c] = 58
        /\ \E n \in 0..(c - 1), bang \in BOOLEAN :
              HeadIs(SubSeq(line, 1, c - 1), n, bang, min) }

\* the grammar of the documentation: a type of one or more characters
GrammarMatch(line) == GrammarColons(line, 1) # {}

GrammarColon(line) == CHOOSE c \in GrammarColons(line, 1) : TRUE

\* the text after the header colon
GrammarSubject(line) == SubSeq(line, GrammarColon(line) + 1, Len(line))

GrammarBang(line) == GrammarColon(line) > 1 /\ line[GrammarColon(line) - 1] = 33

\* the longest prefix of type characters
GrammarType(line) ==
    LET n == CHOOSE n \in 0..Len(line) :
                 /\ \A i \in 1..n : IsTypeChar(line[i])
                 /\ n < Len(line) => ~IsTypeChar(line[n + 1])
    IN  SubSeq(line, 1, n)

\* the line, leading whitespace trimmed, starts with a breaking-change token
FooterLine(line) ==
    \E k \in 0..Len(line) :
        /\ \A i \in 1..k : is_whitespace(line[i])
        /\ \/ starts_with(slice_from(line, k),
                          <<66, 82, 69, 65, 75, 73, 78, 71, 32, 67, 72, 65, 78, 71, 69>>)
           \/ starts_with(slice_from(line, k),
                          <<66, 82, 69, 65, 75, 73, 78, 71, 45, 67, 72, 65, 78, 71, 69>>)

\* the working subject of the subject-level checks
WorkingSubject(line) ==
    IF GrammarMatch(line)
    THEN LET s == GrammarSubject(line)
         IN  IF starts_with(s, <<32>>) THEN slice_from(s, 1) ELSE s
    ELSE line

(***************************************************************************)
(* Inputs of the validator                                                 *)
(***************************************************************************)
MaxSubjectPieces == 2
MaxBodyPieces == 4
MaxTailPieces == 2
MaxBytePieces == 3

SeqsUpTo(S, n) == UNION { [1..k -> S] : k \in 0..n }

Concats(S, n) == { concat(ps) : ps \in SeqsUpTo(S, n) }

\* "", "fix", "FEAT", "tag", "Tag", "ci-1"
TypeParts ==
    { <<>>, <<102, 105, 120>>, <<70, 69, 65, 84>>, <<116, 97, 103>>,
      <<84, 97, 103>>, <<99, 105, 45, 49>> }

\* "", "(s)", "()", "(", ")", "(s))"
ScopeParts ==
    { <<>>, <<40, 115, 41>>, <<40, 41>>, <<40>>, <<41>>, <<40, 115, 41, 41>> }

\* "", "!"
BangParts == { <<>>, <<33>> }

\* "", ":"
ColonParts == { <<>>, <<58>> }

\* " ", "x", ".", "I ", U+3000, ":"
SubjectPieces ==
    { <<32>>, <<120>>, <<46>>, <<73, 32>>, <<227, 128, 128>>, <<58>> }

HeaderTitles ==
    { ty \o sc \o bg \o cl \o sb :
        ty \in TypeParts, sc \in ScopeParts, bg \in BangParts, cl \in ColonParts,
        sb \in Concats(SubjectPieces, MaxSubjectPieces) }

\* "fix: x", "fix!: x", "fix(s): x", ":x", "x", ""
BodyHeaders ==
    { <<102, 105, 120, 58, 32, 120>>, <<102, 105, 120, 33, 58, 32, 120>>,
      <<102, 105, 120, 40, 115, 41, 58, 32, 120>>, <<58, 120>>, <<120>>, <<>> }

\* "\n", "\r", " ", "x", "BREAKING CHANGE", "BREAKING-CHANGE"
BodyPieces ==
    { <<10>>, <<13>>, <<32>>, <<120>>,
      <<66, 82, 69, 65, 75, 73, 78, 71, 32, 67, 72, 65, 78, 71, 69>>,
      <<66, 82, 69, 65, 75, 73, 78, 71, 45, 67, 72, 65, 78, 71, 69>> }

BodyTitles ==
    { h \o b : h \in BodyHeaders, b \in Concats(BodyPieces, MaxBodyPieces) }

\* the prefixes, and "Merge branch", "Revert ", "merge tag "
TailHeads ==
    ExemptPrefixes \cup { <<77, 101, 114, 103, 101, 32, 98, 114, 97, 110, 99, 104>>,
                    <<82, 101, 118, 101, 114, 116, 32>>,
                    <<109, 101, 114, 103, 101, 32, 116, 97, 103, 32>> }

\* "x", "\n", 0xFF, ": "
TailPieces == { <<120>>, <<10>>, <<255>>, <<58, 32>> }

PrefixTitles ==
    { h \o t : h \in TailHeads, t \in Concats(TailPieces, MaxTailPieces) }

BytePieces ==
    { <<120>>, <<128>>, <<160>>, <<194>>, <<227>>, <<237>>, <<240>>, <<255>> }

ByteTitles == Concats(BytePieces, MaxBytePieces)

Titles == HeaderTitles \cup BodyTitles \cup PrefixTitles \cup ByteTitles

(***************************************************************************)
(* The validator as a state machine: `edit` reads the message and calls    *)
(* check_commit_message                                                    *)
(***************************************************************************)
NoResult == [panic |-> FALSE, errors |-> <<>>]

MainIdle ==
    /\ range = <<>>
    /\ pc = "idle"
    /\ head = <<>>
    /\ base = <<>>
    /\ commit_list = <<>>
    /\ idx = 0
    /\ have_err = FALSE
    /\ exit_code = -1
    /\ validated = <<>>

LogIdle ==
    /\ log_stdout = <<>>
    /\ log_output = ProcessError
    /\ commits = ListOk(<<>>)
    /\ lpc = "idle"

DecoderIdle ==
    /\ source = <<>>
    /\ output = ProcessError
    /\ object = IoOk(ObjectNone)
    /\ dpc = "idle"

InitValidate ==
    /\ title \in Titles
    /\ result = NoResult
    /\ vpc = "start"
    /\ DecoderIdle
    /\ LogIdle
    /\ MainIdle

CheckCommitMessage ==
    /\ vpc = "start"
    /\ result' = check_commit_message(title)
    /\ vpc' = "done"
    /\ UNCHANGED <<title, decoder_vars, log_vars, main_vars>>

NextValidate == CheckCommitMessage

SpecValidate == InitValidate /\ [][NextValidate]_vars

(***************************************************************************)
(* Properties of the validator                                             *)
(***************************************************************************)
Done == vpc = "done"

Exempt == \E p \in ExemptPrefixes : starts_with(title, p)

ValidText == from_utf8(title).ok

Text == from_utf8(title).str

TextLines == lines(Text)

FirstLine == TextLines[1]

Kinds == { result.errors[i].kind : i \in 1..Len(result.errors) }

Emitted(kind) == ~result.panic /\ kind \in Kinds

\* the message was validated as text and check_commit_message returned
Validated == Done /\ ~result.panic /\ ~Exempt /\ ValidText

\* C1: check_commit_message returns a list of MessageError for every input
\* byte sequence, the empty one included; it never panics.
C1_Total == Done => ~result.panic

\* C2: for a non-exempt valid-text message, HeaderNotFormatted is emitted
\* exactly when the first line does not match the grammar with a type of one
\* or more characters; the whole first line is then the subject of the
\* subject-level checks and there is no breaking flag to cross-check.
C2_HeaderNotFormatted ==
    Validated =>
        /\ Emitted("HeaderNotFormatted") <=> ~GrammarMatch(FirstLine)
        /\ ~GrammarMatch(FirstLine) =>
              /\ Emitted("HeaderSubjectNotTrimmed") <=> FirstLine # trim(FirstLine)
              /\ Emitted("HeaderSubjectEmpty") <=> trim(FirstLine) = <<>>
              /\ ~Emitted("NoBangInBreakingChangeCommit")

\* C3: a message whose bytes begin with an auto-generated prefix yields the
\* empty violation list whatever follows, invalid UTF-8 included.
C3_Exemption ==
    Done /\ Exempt => ~result.panic /\ result.errors = <<>>

\* an exempt message that is not valid UTF-8 was validated
C3_Witness ==
    /\ Done
    /\ Exempt
    /\ ~ValidText
    /\ starts_with(title, <<77, 101, 114, 103, 101, 32, 112, 117, 108, 108, 32,
                            114, 101, 113, 117, 101, 115, 116, 32, 35>>)
    /\ result.errors = <<>>

\* C4: for a non-exempt valid-text message of two or more lines,
\* NoBangInBreakingChangeCommit is emitted exactly when the first line matches
\* the grammar, has no "!" before the colon, and a line of index 2 or later
\* is a breaking-change footer; it is never emitted for a single line.
C4_BreakingCrossCheck ==
    Validated =>
        /\ Len(TextLines) >= 2 =>
              (Emitted("NoBangInBreakingChangeCommit") <=>
                  /\ GrammarMatch(FirstLine)
                  /\ ~GrammarBang(FirstLine)
                  /\ \E i \in 3..Len(TextLines) : FooterLine(TextLines[i]))
        /\ Len(TextLines) = 1 => ~Emitted("NoBangInBreakingChangeCommit")

\* C5: for a non-exempt valid-text message, HeaderSubjectNotTrimmed is
\* emitted exactly when the working subject (the text after the header colon
\* less one leading space, or the whole first line when the header does not
\* match the grammar) differs from its Unicode-whitespace trim.
C5_SubjectTrimming ==
    Validated =>
        (Emitted("HeaderSubjectNotTrimmed") <=>
            WorkingSubject(FirstLine) # trim(WorkingSubject(FirstLine)))

IndexOf(kind) == CHOOSE i \in 1..Len(result.errors) : result.errors[i].kind = kind

\* C6: when the first line matches the grammar, HeaderTypeNotLower is emitted
\* exactly when the type has an uppercase letter, HeaderUnknownType exactly
\* when the lowercased type is not a known type, its payload is the type as
\* written, and HeaderTypeNotLower comes before HeaderUnknownType.
C6_TypeChecks ==
    (Done /\ ~Exempt /\ ValidText /\ Len(TextLines) >= 1 /\ GrammarMatch(FirstLine)) =>
        LET ty == GrammarType(FirstLine)
        IN  /\ ~result.panic
            /\ Emitted("HeaderTypeNotLower") <=> \E i \in 1..Len(ty) : IsUpper(ty[i])
            /\ Emitted("HeaderUnknownType") <=> to_ascii_lowercase(ty) \notin KnownTypeNames
            /\ \A i \in 1..Len(result.errors) :
                  result.errors[i].kind = "HeaderUnknownType" => result.errors[i].ty = ty
            /\ Emitted("HeaderTypeNotLower") /\ Emitted("HeaderUnknownType") =>
                  IndexOf("HeaderTypeNotLower") < IndexOf("HeaderUnknownType")

\* a header whose type is unknown and not lowercase was validated
C6_Witness ==
    /\ Validated
    /\ GrammarMatch(FirstLine)
    /\ Emitted("HeaderTypeNotLower")
    /\ Emitted("HeaderUnknownType")

(***************************************************************************)
(* What holds of the header rules: they hold for every first line except a *)
(* head with an empty type, which parse accepts and the grammar rejects    *)
(***************************************************************************)
\* the first line is ["(" scope ")"] ["!"] ":" [subject], without a type
EmptyTypeHeader ==
    /\ GrammarColons(FirstLine, 0) # {}
    /\ GrammarColons(FirstLine, 1) = {}

\* HeaderNotFormatted and the grammar agree but for an empty type
HeaderNotFormatted_ExceptEmptyType ==
    (Validated /\ ~EmptyTypeHeader) =>
        /\ Emitted("HeaderNotFormatted") <=> ~GrammarMatch(FirstLine)
        /\ ~GrammarMatch(FirstLine) =>
              /\ Emitted("HeaderSubjectNotTrimmed") <=> FirstLine # trim(FirstLine)
              /\ Emitted("HeaderSubjectEmpty") <=> trim(FirstLine) = <<>>
              /\ ~Emitted("NoBangInBreakingChangeCommit")

\* a head with an empty type is never reported as HeaderNotFormatted
EmptyTypeAccepted ==
    (Validated /\ EmptyTypeHeader) =>
        /\ ~Emitted("HeaderNotFormatted")
        /\ Emitted("HeaderUnknownType")

\* the breaking-change cross-check is as documented but for an empty type
BreakingCrossCheck_ExceptEmptyType ==
    (Validated /\ ~EmptyTypeHeader /\ Len(TextLines) >= 2) =>
        (Emitted("NoBangInBreakingChangeCommit") <=>
            /\ GrammarMatch(FirstLine)
            /\ ~GrammarBang(FirstLine)
            /\ \E i \in 3..Len(TextLines) : FooterLine(TextLines[i]))

\* the trimming check is as documented but for an empty type
SubjectTrimming_ExceptEmptyType ==
    (Validated /\ ~EmptyTypeHeader) =>
        (Emitted("HeaderSubjectNotTrimmed") <=>
            WorkingSubject(FirstLine) # trim(WorkingSubject(FirstLine)))

\* the only input that makes check_commit_message panic is the empty one
PanicOnlyOnEmpty == Done => (result.panic <=> title = <<>>)

(***************************************************************************)
(* The decoder as a state machine                                          *)
(***************************************************************************)
MaxSourceLen == 7
MaxObjectPieces == 5

\* "a", "b", " ", "\n"
SourceBytes == { 97, 98, 32, 10 }

\* "tree X\n", "parent Y\n", " Z\n", "\n", "Subject line", "tree"
ObjectPieces ==
    { <<116, 114, 101, 101, 32, 88, 10>>,
      <<112, 97, 114, 101, 110, 116, 32, 89, 10>>,
      <<32, 90, 10>>,
      <<10>>,
      <<83, 117, 98, 106, 101, 99, 116, 32, 108, 105, 110, 101>>,
      <<116, 114, 101, 101>> }

Sources == SeqsUpTo(SourceBytes, MaxSourceLen) \cup Concats(ObjectPieces, MaxObjectPieces)

ValidatorIdle ==
    /\ title = <<>>
    /\ result = NoResult
    /\ vpc = "idle"

InitDecode ==
    /\ source \in Sources
    /\ output = ProcessError
    /\ object = IoOk(ObjectNone)
    /\ dpc = "start"
    /\ ValidatorIdle
    /\ LogIdle
    /\ MainIdle

\* CommitObject::parse(source)
Parse ==
    /\ dpc = "start"
    /\ object' = IoOk(CommitObject_parse(source))
    /\ dpc' = "parsed"
    /\ UNCHANGED <<source, output, validator_vars, log_vars, main_vars>>

\* get_commit, `git cat-file commit` printing source when it succeeds
GetCommit ==
    /\ dpc = "start"
    /\ output' \in { ProcessError, ProcessOutput(FALSE, source), ProcessOutput(TRUE, source) }
    /\ object' = get_commit(output')
    /\ dpc' = "fetched"
    /\ UNCHANGED <<source, validator_vars, log_vars, main_vars>>

NextDecode == Parse \/ GetCommit

SpecDecode == InitDecode /\ [][NextDecode]_vars

(***************************************************************************)
(* Properties of the decoder                                               *)
(***************************************************************************)
\* the positions of the "\n" of an empty line
EmptyLines(src) ==
    { k \in 1..Len(src) : src[k] = 10 /\ (k = 1 \/ src[k - 1] = 10) }

\* the header block is terminated by an empty line
Terminated(src) == EmptyLines(src) # {}

\* the position of the "\n" of the first empty line
BlockEnd(src) == CHOOSE k \in EmptyLines(src) : \A j \in EmptyLines(src) : k <= j

\* the positions where a line of the header block starts
HeaderLineStarts(src) ==
    { a \in 1..(BlockEnd(src) - 1) : a = 1 \/ src[a - 1] = 10 }

\* the position of the "\n" that ends the line starting at a
LineEnd(src, a) ==
    CHOOSE b \in a..Len(src) : src[b] = 10 /\ \A j \in a..(b - 1) : src[j] # 10

\* the line starting at a has no space
NoSpace(src, a) == \A j \in a..(LineEnd(src, a) - 1) : src[j] # 32

\* a continuation line: not the first line, and it starts with a space
Continuation(src, a) == a > 1 /\ src[a] = 32

WellFormed(src) ==
    /\ Terminated(src)
    /\ \A a \in HeaderLineStarts(src) : ~Continuation(src, a) => ~NoSpace(src, a)

\* C7: CommitObject::parse never panics; it returns None whenever the header
\* block is not terminated by an empty line or a non-continuation header line
\* has no space (and an object otherwise), and get_commit returns that None,
\* never a partial object.
C7_DecoderFailure ==
    /\ dpc = "parsed" =>
          /\ ~object.value.panic
          /\ object.value.some <=> WellFormed(source)
    /\ dpc = "fetched" =>
          /\ ~object.value.panic
          /\ object.io = "Ok" <=> ~output.io_error
          /\ object.value.some <=> (~output.io_error /\ output.success /\ WellFormed(source))

\* a header line without a space, before the empty line, made get_commit
\* return None for a successful `git cat-file`
C7_Witness ==
    /\ dpc = "fetched"
    /\ output = ProcessOutput(TRUE, source)
    /\ Terminated(source)
    /\ \E a \in HeaderLineStarts(source) : NoSpace(source, a)
    /\ object = IoOk(ObjectNone)

\* value with each "\n" replaced by "\n "
RECURSIVE Unfold(_)
Unfold(value) ==
    IF value = <<>> THEN <<>>
    ELSE IF Head(value) = 10 THEN <<10, 32>> \o Unfold(Tail(value))
    ELSE <<Head(value)>> \o Unfold(Tail(value))

RECURSIVE SerializeHeader(_)
SerializeHeader(header) ==
    IF header = <<>> THEN <<>>
    ELSE Head(header).name \o <<32>> \o Unfold(Head(header).value) \o <<10>>
         \o SerializeHeader(Tail(header))

\* name, space, value, newline per header, an empty line, the message
Serialize(obj) == SerializeHeader(obj.header) \o <<10>> \o obj.message

\* C8: for well-formed input the header pairs are in input order, one per
\* non-continuation line, split at the first space, with the continuation
\* lines folded in, and the message is all bytes after the first empty line;
\* serializing the result reproduces the input byte for byte.
C8_DecoderResult ==
    (dpc = "parsed" /\ WellFormed(source)) =>
        LET obj == object.value
        IN  /\ obj.some
            /\ Serialize(obj) = source
            /\ obj.message = SubSeq(source, BlockEnd(source) + 1, Len(source))
            /\ Len(obj.header) =
                  Cardinality({ a \in HeaderLineStarts(source) : ~Continuation(source, a) })
            /\ \A i \in 1..Len(obj.header) :
                  /\ 32 \notin { obj.header[i].name[j] : j \in 1..Len(obj.header[i].name) }
                  /\ 10 \notin { obj.header[i].name[j] : j \in 1..Len(obj.header[i].name) }
                  /\ i > 1 => obj.header[i].name # <<>>

\* an object with two headers, the second one with a continuation line and
\* the same name as the first, was decoded
C8_Witness ==
    /\ dpc = "parsed"
    /\ object.value.some
    /\ Len(object.value.header) = 2
    /\ object.value.header[1].name = object.value.header[2].name
    /\ 10 \in { object.value.header[2].value[j] : j \in 1..Len(object.value.header[2].value) }
    /\ object.value.message # <<>>

(***************************************************************************)
(* get_commits as a state machine                                          *)
(***************************************************************************)
MaxLogPieces == 4

\* "0123456789abcdef0123456789abcdef01234567"
HashA ==
    <<48, 49, 50, 51, 52, 53, 54, 55, 56, 57, 97, 98, 99, 100, 101, 102, 48, 49, 50, 51,
      52, 53, 54, 55, 56, 57, 97, 98, 99, 100, 101, 102, 48, 49, 50, 51, 52, 53, 54, 55>>

\* "89abcdeffedcba9889abcdeffedcba9889abcdef"
HashB ==
    <<56, 57, 97, 98, 99, 100, 101, 102, 102, 101, 100, 99, 98, 97, 57, 56, 56, 57, 97, 98,
      99, 100, 101, 102, 102, 101, 100, 99, 98, 97, 57, 56, 56, 57, 97, 98, 99, 100, 101, 102>>

\* "g123456789abcdef0123456789abcdef01234567": 40 bytes, not hex
NotHex40 ==
    <<103, 49, 50, 51, 52, 53, 54, 55, 56, 57, 97, 98, 99, 100, 101, 102, 48, 49, 50, 51,
      52, 53, 54, 55, 56, 57, 97, 98, 99, 100, 101, 102, 48, 49, 50, 51, 52, 53, 54, 55>>

\* two identifiers, a line of 40 bytes that is not hex, "abc", "\n", "\r"
LogPieces == { HashA, HashB, NotHex40, <<97, 98, 99>>, <<10>>, <<13>> }

InitLog ==
    /\ log_stdout \in Concats(LogPieces, MaxLogPieces)
    /\ log_output = ProcessError
    /\ commits = ListOk(<<>>)
    /\ lpc = "start"
    /\ ValidatorIdle
    /\ DecoderIdle
    /\ MainIdle

\* get_commits, `git log --format=%H` printing log_stdout
GetCommits ==
    /\ lpc = "start"
    /\ log_output' \in { ProcessError, ProcessOutput(FALSE, log_stdout),
                         ProcessOutput(TRUE, log_stdout) }
    /\ commits' = get_commits(log_output')
    /\ lpc' = "done"
    /\ UNCHANGED <<log_stdout, validator_vars, decoder_vars, main_vars>>

NextLog == GetCommits

SpecLog == InitLog /\ [][NextLog]_vars

(***************************************************************************)
(* Properties of get_commits                                               *)
(***************************************************************************)
IsHexDigit(c) ==
    \/ c >= 48 /\ c <= 57
    \/ c >= 97 /\ c <= 102
    \/ c >= 65 /\ c <= 70

ValidIdentifier(line) ==
    Len(line) = 40 /\ \A i \in 1..Len(line) : IsHexDigit(line[i])

\* the non-empty lines of the output, "\n" or "\r\n" ended
OutputLines(stdout) ==
    SelectSeq([i \in 1..Len(split(stdout, 10)) |-> strip_cr(split(stdout, 10)[i])],
              LAMBDA l : l # <<>>)

Malformed(stdout) ==
    \/ Len(stdout) < 40
    \/ \E i \in 1..Len(OutputLines(stdout)) : ~ValidIdentifier(OutputLines(stdout)[i])

\* C9: once `git log` has run, get_commits returns the empty sequence, not an
\* error and not a partial list, whenever git failed or a line of its output
\* is not a 40-hex identifier or the output is shorter than one identifier;
\* otherwise it returns the identifiers in output order.
C9_SoftFailure ==
    (lpc = "done" /\ ~log_output.io_error) =>
        /\ commits.io = "Ok"
        /\ (~log_output.success \/ Malformed(log_stdout)) => commits.value = <<>>
        /\ (log_output.success /\ ~Malformed(log_stdout)) =>
              /\ Len(commits.value) = Len(OutputLines(log_stdout))
              /\ \A i \in 1..Len(commits.value) :
                    Display(commits.value[i]) = to_ascii_lowercase(OutputLines(log_stdout)[i])

\* what holds: a listing whose lines are all identifiers comes back whole and
\* in output order, and a failed `git log` gives the empty list
WellFormedListing ==
    (lpc = "done" /\ ~log_output.io_error) =>
        /\ commits.io = "Ok"
        /\ ~log_output.success => commits.value = <<>>
        /\ (log_output.success /\ ~Malformed(log_stdout)) =>
              /\ Len(commits.value) = Len(OutputLines(log_stdout))
              /\ \A i \in 1..Len(commits.value) :
                    Display(commits.value[i]) = to_ascii_lowercase(OutputLines(log_stdout)[i])

(***************************************************************************)
(* The `check` command of main as a state machine: one step per await      *)
(***************************************************************************)
MaxRange == 2

\* "fedcba9876543210fedcba9876543210fedcba98"
HashC ==
    <<102, 101, 100, 99, 98, 97, 57, 56, 55, 54, 53, 52, 51, 50, 49, 48, 102, 101, 100, 99,
      98, 97, 57, 56, 55, 54, 53, 52, 51, 50, 49, 48, 102, 101, 100, 99, 98, 97, 57, 56>>

RangeHashes == { HashA, HashB, HashC }

\* the ranges: sequences of distinct commits
Ranges ==
    { r \in SeqsUpTo(RangeHashes, MaxRange) :
        \A i, j \in 1..Len(r) : i # j => r[i] # r[j] }

\* what `git log --format=%H` prints for a range
RECURSIVE LogText(_)
LogText(r) == IF r = <<>> THEN <<>> ELSE Head(r) \o <<10>> \o LogText(Tail(r))

\* `git log`: not spawned, failed, the listing, or a listing whose first byte
\* is lost
LogOutputs(r) ==
    { ProcessError, ProcessOutput(FALSE, <<>>), ProcessOutput(TRUE, LogText(r)),
      ProcessOutput(TRUE, slice_from(LogText(r), 1)) }

\* `git rev-parse`: not spawned, failed, an identifier, or something else
RevParseOutputs(h) ==
    { ProcessError, ProcessOutput(FALSE, <<>>), ProcessOutput(TRUE, h \o <<10>>),
      ProcessOutput(TRUE, <<97, 98, 99, 10>>), ProcessOutput(TRUE, NotHex40 \o <<10>>) }

\* "tree X\n\nfix: x", "tree X\n\nMessage Only", "tree X\n", "tree X\n\n"
RawObjects ==
    { <<116, 114, 101, 101, 32, 88, 10, 10, 102, 105, 120, 58, 32, 120>>,
      <<116, 114, 101, 101, 32, 88, 10, 10, 77, 101, 115, 115, 97, 103, 101, 32, 79, 110,
        108, 121>>,
      <<116, 114, 101, 101, 32, 88, 10>>,
      <<116, 114, 101, 101, 32, 88, 10, 10>> }

\* `git cat-file commit`: not spawned, failed, or an object
CatFileOutputs ==
    { ProcessError, ProcessOutput(FALSE, <<>>) } \cup { ProcessOutput(TRUE, o) : o \in RawObjects }

InitMain ==
    /\ range \in Ranges
    /\ pc = "rev_parse_head"
    /\ head = <<>>
    /\ base = <<>>
    /\ commit_list = <<>>
    /\ idx = 0
    /\ have_err = FALSE
    /\ exit_code = -1
    /\ validated = <<>>
    /\ ValidatorIdle
    /\ DecoderIdle
    /\ LogIdle

\* a failed expect: the process panics
Abort ==
    /\ pc' = "exited"
    /\ exit_code' = 101

\* git.rev_parse(&head_name).await.expect(..).expect("unknown head ref")
RevParseHead ==
    /\ pc = "rev_parse_head"
    /\ \E out \in RevParseOutputs(HashA) :
          LET r == rev_parse(out)
          IN  IF r.io = "Err" \/ ~r.some
              THEN Abort /\ UNCHANGED head
              ELSE /\ head' = r.hash
                   /\ pc' = "rev_parse_base"
                   /\ UNCHANGED exit_code
    /\ UNCHANGED <<range, base, commit_list, idx, have_err, validated,
                   validator_vars, decoder_vars, log_vars>>

\* git.rev_parse(&base_name).await.expect(..).expect("unknown base ref")
RevParseBase ==
    /\ pc = "rev_parse_base"
    /\ \E out \in RevParseOutputs(HashB) :
          LET r == rev_parse(out)
          IN  IF r.io = "Err" \/ ~r.some
              THEN Abort /\ UNCHANGED base
              ELSE /\ base' = r.hash
                   /\ pc' = "get_commits"
                   /\ UNCHANGED exit_code
    /\ UNCHANGED <<range, head, commit_list, idx, have_err, validated,
                   validator_vars, decoder_vars, log_vars>>

\* git.get_commits(head, base).await.expect("get commit list failed")
ListRange ==
    /\ pc = "get_commits"
    /\ \E out \in LogOutputs(range) :
          LET r == get_commits(out)
          IN  IF r.io = "Err"
              THEN Abort /\ UNCHANGED commit_list
              ELSE /\ commit_list' = r.value
                   /\ pc' = "loop"
                   /\ UNCHANGED exit_code
    /\ UNCHANGED <<range, head, base, idx, have_err, validated,
                   validator_vars, decoder_vars, log_vars>>

\* one iteration of the for loop: get_commit, check_commit_message
LoopStep ==
    /\ pc = "loop"
    /\ idx < Len(commit_list)
    /\ \E out \in CatFileOutputs :
          LET commit_hash == commit_list[idx + 1]
              commit == get_commit(out)
              errors == check_commit_message(commit.value.message)
          IN  IF commit.io = "Err" \/ commit.value.panic \/ ~commit.value.some
              THEN Abort /\ UNCHANGED <<idx, have_err, validated>>
              ELSE IF errors.panic
              THEN Abort /\ UNCHANGED <<idx, have_err, validated>>
              ELSE /\ have_err' = (have_err \/ errors.errors # <<>>)
                   /\ validated' = Append(validated, [hash |-> Display(commit_hash),
                                                      errors |-> errors.errors])
                   /\ idx' = idx + 1
                   /\ UNCHANGED <<pc, exit_code>>
    /\ UNCHANGED <<range, head, base, commit_list, validator_vars, decoder_vars, log_vars>>

\* the end of the loop: if have_err { exit(1) }
LoopEnd ==
    /\ pc = "loop"
    /\ idx = Len(commit_list)
    /\ pc' = "exited"
    /\ exit_code' = IF have_err THEN 1 ELSE 0
    /\ UNCHANGED <<range, head, base, commit_list, idx, have_err, validated,
                   validator_vars, decoder_vars, log_vars>>

NextMain == RevParseHead \/ RevParseBase \/ ListRange \/ LoopStep \/ LoopEnd

SpecMain == InitMain /\ [][NextMain]_vars

(***************************************************************************)
(* Properties of the range check                                           *)
(***************************************************************************)
ValidatedHashes == [i \in 1..Len(validated) |-> validated[i].hash]

\* C10: the commits are validated once each in list order, a commit with
\* violations does not stop the loop, and the run ends with success only if
\* every commit of the range was validated and none had a violation: a failed
\* listing is never reported as a pass.
C10_RangeCheck ==
    /\ pc \in {"loop", "exited"} =>
          /\ Len(validated) <= Len(commit_list)
          /\ \A i \in 1..Len(validated) : validated[i].hash = Display(commit_list[i])
    /\ (pc = "exited" /\ exit_code = 0) =>
          /\ ValidatedHashes = range
          /\ \A i \in 1..Len(validated) : validated[i].errors = <<>>

\* what holds: the commits validated are the first ones of the list, in list
\* order; success means the whole list was validated without a violation; a
\* violation does not stop the loop; an abort is a failing status
LoopOverList ==
    /\ pc \in {"loop", "exited"} =>
          /\ Len(validated) = idx
          /\ idx <= Len(commit_list)
          /\ \A i \in 1..Len(validated) : validated[i].hash = Display(commit_list[i])
          /\ have_err <=> \E i \in 1..Len(validated) : validated[i].errors # <<>>
    /\ (pc = "exited" /\ exit_code = 0) =>
          /\ Len(validated) = Len(commit_list)
          /\ ~have_err
    /\ (pc = "exited" /\ Len(validated) < Len(commit_list)) => exit_code = 101
    /\ pc = "exited" => exit_code \in {0, 1, 101}

\* a commit with violations was followed by the validation of the next one
ViolationDoesNotStop ==
    /\ Len(validated) = 2
    /\ validated[1].errors # <<>>

====
